---- MODULE Spec2Model ----
(***************************************************************************)
(* Model of src/git_push.py: a straight-line script that changes the       *)
(* working directory, runs `git add`, `git commit`, `git push` through     *)
(* subprocess.run (check=False, return value discarded) and prints a       *)
(* fixed line.                                                             *)
(*                                                                         *)
(* Script state   : pc, cwd, running, exc, out.                            *)
(* Environment    : dirState (what the fixed path is on disk), and the     *)
(*                  outcome of every subprocess.run call.                  *)
(* Observation log: calls (argv of every subprocess.run call, in order)    *)
(*                  and results (what each call produced).  The script     *)
(*                  never reads either; no guard below mentions results.   *)
(***************************************************************************)
EXTENDS Integers, Sequences, FiniteSets

\* Largest exit status a child returns in the model (real range is 0..255).
MaxExit == 3

ExitCodes == 0..MaxExit

\* src/git_push.py:5
RepoPath == "/Users/usuario/Documents/projetos/resea-backend"

\* Directories the interpreter may have been started in.
StartDirs == {"/", "/Users/usuario", RepoPath}

\* What RepoPath is on disk when os.chdir is called.
DirStates == {"dir", "missing", "file"}

\* src/git_push.py:8
AddArgvWildcard == <<"git", "add", ".">>
AddArgv == <<"git", "add", "src/routes/search.ts", "src/server.ts", "PHASE1_COMPLETE.md">>

\* src/git_push.py:11
CommitArgvAmend == <<"git", "commit", "--amend", "-m", "feat: Complete Phase 1 automation">>
CommitArgv == <<"git", "commit", "-m", "feat: Complete Phase 1 automation">>

\* src/git_push.py:14
PushArgvForce == <<"git", "push", "--force", "origin", "main">>
PushArgv == <<"git", "push", "origin", "main">>

\* src/git_push.py:16 (the check mark U+2705 and the accented i are written
\* in ASCII here)
SuccessMessage == "[U+2705] Commit e push concluidos!"

\* The states of the run, in program order.
States == <<"start", "directory-changed", "staged", "committed", "pushed", "done">>

VARIABLES pc, cwd, dirState, running, exc, calls, results, out

vars == <<pc, cwd, dirState, running, exc, calls, results, out>>

\* The exception os.chdir raises for a path that is not a directory.
ChdirError(d) == IF d = "missing" THEN "FileNotFoundError" ELSE "NotADirectoryError"

Returned(rc) == [launched |-> TRUE, returncode |-> rc]
NotLaunched == [launched |-> FALSE, returncode |-> 0]

Init ==
    /\ pc = "start"
    /\ cwd \in StartDirs
    /\ dirState \in DirStates
    /\ running = "none"
    /\ exc = "none"
    /\ calls = <<>>
    /\ results = <<>>
    /\ out = <<>>

\* os.chdir(RepoPath) succeeds.
Chdir ==
    /\ pc = "start" /\ exc = "none"
    /\ dirState = "dir"
    /\ cwd' = RepoPath
    /\ pc' = "directory-changed"
    /\ UNCHANGED <<dirState, running, exc, calls, results, out>>

\* A variant that swallows the error and carries on.
ChdirFailIgnored ==
    /\ pc = "start" /\ exc = "none"
    /\ dirState # "dir"
    /\ pc' = "directory-changed"
    /\ UNCHANGED <<cwd, dirState, running, exc, calls, results, out>>

\* os.chdir(RepoPath) raises; nothing catches it, the interpreter exits.
ChdirFail ==
    /\ pc = "start" /\ exc = "none"
    /\ dirState # "dir"
    /\ exc' = ChdirError(dirState)
    /\ UNCHANGED <<pc, cwd, dirState, running, calls, results, out>>

\* subprocess.run(argv) is entered: the script blocks in it.
Invoke(cmd, argv) ==
    /\ exc = "none" /\ running = "none"
    /\ running' = cmd
    /\ calls' = Append(calls, argv)
    /\ UNCHANGED <<pc, cwd, dirState, exc, results, out>>

\* The child exits with status rc; run() returns a CompletedProcess that
\* the script drops, and execution continues with the next statement.
Return(to, rc) ==
    /\ exc = "none"
    /\ running' = "none"
    /\ results' = Append(results, Returned(rc))
    /\ pc' = to
    /\ UNCHANGED <<cwd, dirState, exc, calls, out>>

\* A variant with check=True: a non-zero status raises CalledProcessError.
ReturnChecked(to, rc) ==
    /\ exc = "none"
    /\ running' = "none"
    /\ results' = Append(results, Returned(rc))
    /\ IF rc = 0 THEN pc' = to /\ exc' = exc
                 ELSE pc' = pc /\ exc' = "CalledProcessError"
    /\ UNCHANGED <<cwd, dirState, calls, out>>

\* A variant that swallows the launch error and carries on.
LaunchFailIgnored(to) ==
    /\ exc = "none"
    /\ running' = "none"
    /\ results' = Append(results, NotLaunched)
    /\ pc' = to
    /\ UNCHANGED <<cwd, dirState, exc, calls, out>>

\* The executable cannot be started: Popen raises out of run(); nothing
\* catches it, the interpreter exits without reaching the statement `to`.
LaunchFail(to) ==
    /\ exc = "none"
    /\ running' = "none"
    /\ results' = Append(results, NotLaunched)
    /\ exc' = "FileNotFoundError"
    /\ UNCHANGED <<pc, cwd, dirState, calls, out>>

\* Line 8: subprocess.run(['git', 'add', ...]).
StageInvoke ==
    /\ pc = "directory-changed"
    /\ Invoke("add", AddArgv)

StageReturnChecked ==
    /\ running = "add"
    /\ \E rc \in ExitCodes : ReturnChecked("staged", rc)

StageReturn ==
    /\ running = "add"
    /\ \E rc \in ExitCodes : Return("staged", rc)

StageLaunchFail ==
    /\ running = "add"
    /\ LaunchFail("staged")

\* Line 11: subprocess.run(['git', 'commit', ...]).
CommitInvoke ==
    /\ pc = "staged"
    /\ Invoke("commit", CommitArgv)

\* A variant that skips the push when the commit failed.
CommitReturnSkipPush ==
    /\ running = "commit"
    /\ \E rc \in ExitCodes :
          Return(IF rc = 0 THEN "committed" ELSE "pushed", rc)

CommitReturn ==
    /\ running = "commit"
    /\ \E rc \in ExitCodes : Return("committed", rc)

CommitLaunchFail ==
    /\ running = "commit"
    /\ LaunchFail("committed")

\* Line 14: subprocess.run(['git', 'push', ...]).
PushInvoke ==
    /\ pc = "committed"
    /\ Invoke("push", PushArgv)

PushReturnChecked ==
    /\ running = "push"
    /\ \E rc \in ExitCodes : ReturnChecked("pushed", rc)

PushReturn ==
    /\ running = "push"
    /\ \E rc \in ExitCodes : Return("pushed", rc)

PushLaunchFail ==
    /\ running = "push"
    /\ LaunchFail("pushed")

\* A variant that reports success only when every status was zero.
PrintMessageIfAllZero ==
    /\ pc = "pushed" /\ exc = "none" /\ running = "none"
    /\ out' = IF \A i \in 1..Len(results) : results[i].returncode = 0
              THEN Append(out, SuccessMessage) ELSE out
    /\ pc' = "done"
    /\ UNCHANGED <<cwd, dirState, running, exc, calls, results>>

\* A variant that goes back to another directory before printing.
PrintMessageRestoringCwd ==
    /\ pc = "pushed" /\ exc = "none" /\ running = "none"
    /\ out' = Append(out, SuccessMessage)
    /\ cwd' = "/"
    /\ pc' = "done"
    /\ UNCHANGED <<dirState, running, exc, calls, results>>

\* print(SuccessMessage); the script ends.
PrintMessage ==
    /\ pc = "pushed" /\ exc = "none" /\ running = "none"
    /\ out' = Append(out, SuccessMessage)
    /\ pc' = "done"
    /\ UNCHANGED <<cwd, dirState, running, exc, calls, results>>

Next ==
    \/ Chdir
    \/ ChdirFail
    \/ StageInvoke
    \/ StageReturn
    \/ StageLaunchFail
    \/ CommitInvoke
    \/ CommitReturn
    \/ CommitLaunchFail
    \/ PushInvoke
    \/ PushReturn
    \/ PushLaunchFail
    \/ PrintMessage

Spec == Init /\ [][Next]_vars

\* The interpreter always executes its next statement, and a child that was
\* started eventually exits (or the launch eventually fails).
FairSpec == Spec /\ WF_vars(Next)

----
\* Helpers for the properties.

Terminated == pc = "done" \/ exc # "none"

Count(argv) == Cardinality({i \in 1..Len(calls) : calls[i] = argv})

CountCmd(cmd) == Cardinality({i \in 1..Len(calls) : calls[i][2] = cmd})

\* Position of the first call of the sub-command cmd, 0 when there is none.
IndexOf(cmd) ==
    IF \E i \in 1..Len(calls) : calls[i][2] = cmd
    THEN CHOOSE i \in 1..Len(calls) :
            /\ calls[i][2] = cmd
            /\ \A j \in 1..(i - 1) : calls[j][2] # cmd
    ELSE 0

\* The i-th call has come back with an exit status.
HasReturned(i) == i >= 1 /\ i <= Len(results) /\ results[i].launched

AllLaunched == \A i \in 1..Len(results) : results[i].launched

StateIndex(s) == CHOOSE i \in 1..Len(States) : States[i] = s

TypeOK ==
    /\ pc \in {States[i] : i \in 1..Len(States)}
    /\ cwd \in StartDirs
    /\ dirState \in DirStates
    /\ running \in {"none", "add", "commit", "push"}
    /\ exc \in {"none", "FileNotFoundError", "NotADirectoryError"}
    /\ Len(calls) <= 3
    /\ Len(results) <= Len(calls)
    /\ Len(out) <= 1

----
\* C1 as stated: in every run the staging command is invoked exactly once,
\* with exactly the three literal paths, before the commit command.  Read
\* on a run that has ended, whichever way it ended.
C1_StageOnceInEveryRun ==
    Terminated =>
        /\ CountCmd("add") = 1
        /\ calls[1] = <<"git", "add", "src/routes/search.ts", "src/server.ts",
                        "PHASE1_COMPLETE.md">>

\* C1 amended: in every run in which the directory change succeeds, git add
\* is invoked exactly once, with exactly the three literal paths, as the
\* first external invocation and so before git commit; in no run is it
\* invoked more than once or with other arguments.
C1_StageOnceAfterChdir ==
    /\ CountCmd("add") <= 1
    /\ \A i \in 1..Len(calls) :
          calls[i][2] = "add" =>
              /\ i = 1
              /\ calls[i] = <<"git", "add", "src/routes/search.ts",
                              "src/server.ts", "PHASE1_COMPLETE.md">>
    /\ CountCmd("commit") > 0 =>
          IndexOf("add") > 0 /\ IndexOf("add") < IndexOf("commit")
    /\ (pc # "start" /\ (pc # "directory-changed" \/ running # "none" \/ exc # "none"))
          => CountCmd("add") = 1
    /\ (dirState = "dir" /\ Terminated) => CountCmd("add") = 1

C1_Witness ==
    /\ Len(calls) >= 2
    /\ calls[1][2] = "add"
    /\ calls[2][2] = "commit"

C4_SuccessPrintedOnce ==
    /\ Len(out) <= 1
    /\ out # <<>> =>
          /\ out[1] = "[U+2705] Commit e push concluidos!"
          /\ HasReturned(3)
    /\ (Terminated /\ HasReturned(1) /\ HasReturned(2) /\ HasReturned(3)) =>
          out = << "[U+2705] Commit e push concluidos!" >>

C4_Witness ==
    /\ pc = "done"
    /\ Len(out) = 1
    /\ \A i \in 1..3 : results[i].returncode # 0

\* C5: when the directory change fails, none of the three external
\* invocations ever occurs and the run never leaves its first step.
C5_NoCallsAfterChdirFailure ==
    dirState # "dir" =>
        /\ pc = "start"
        /\ calls = <<>>
        /\ running = "none"
        /\ CountCmd("add") = 0 /\ CountCmd("commit") = 0 /\ CountCmd("push") = 0

C5_Witness ==
    /\ dirState = "missing"
    /\ exc = "FileNotFoundError"
    /\ pc = "start"

\* C6 as stated: every run ends with the single fixed line printed, whether
\* or not the directory change and the three invocations succeeded.
C6_AlwaysPrinted ==
    Terminated => out = << "[U+2705] Commit e push concluidos!" >>

\* C6 amended: a run that has ended has printed the single fixed line
\* exactly when the directory change succeeded and every invocation could
\* be launched, whatever exit statuses were returned; a run ended by a
\* failed directory change or a failed launch has printed nothing.
C6_PrintedUnlessRaised ==
    Terminated =>
        IF dirState = "dir" /\ AllLaunched
        THEN out = << "[U+2705] Commit e push concluidos!" >>
        ELSE out = <<>>

C6_Witness ==
    /\ pc = "done"
    /\ results[3].returncode # 0
    /\ out # <<>>

\* C7: a non-zero exit status never alters control flow: after stage has
\* returned non-zero, commit is still invoked, and after stage and commit
\* have returned with a non-zero status among them, push is still invoked.
C7_StatusAbsorbed ==
    /\ (HasReturned(1) /\ results[1].returncode # 0) ~> (CountCmd("commit") = 1)
    /\ (HasReturned(2) /\ (results[1].returncode # 0 \/ results[2].returncode # 0))
          ~> (CountCmd("push") = 1)

C7_Witness ==
    /\ running = "push"
    /\ results[1].returncode # 0
    /\ results[2].returncode # 0

\* C8: every change of state goes to the immediate successor in
\* start, directory-changed, staged, committed, pushed, done (so no state
\* is entered twice), and a run whose directory change succeeds and whose
\* invocations all return reaches done.
C8_Linear ==
    /\ [][pc' # pc => StateIndex(pc') = StateIndex(pc) + 1]_vars
    /\ <>(pc = "done" \/ dirState # "dir" \/ ~AllLaunched)

C8_Witness ==
    /\ pc = "done"
    /\ exc = "none"
    /\ Len(results) = 3

\* C9: the working directory changes only in the first step and only to the
\* fixed path; from directory-changed onward it is the fixed path and no
\* later step changes it.
C9_CwdChangedOnce ==
    /\ [](pc # "start" => cwd = RepoPath)
    /\ [][cwd' # cwd => (pc = "start" /\ pc' = "directory-changed")]_vars
    /\ [][pc # "start" => cwd' = cwd]_vars

C9_Witness ==
    /\ pc = "done"
    /\ cwd = "/Users/usuario/Documents/projetos/resea-backend"

\* C10: an invocation that cannot be launched ends the script there: it is
\* the last invocation, nothing is printed and the run never reaches done,
\* even though earlier non-zero statuses were absorbed.
C10_LaunchFailureTerminates ==
    \A i \in 1..Len(results) :
        ~results[i].launched =>
            /\ i = Len(calls)
            /\ i = Len(results)
            /\ running = "none"
            /\ out = <<>>
            /\ pc # "done"
            /\ exc # "none"

C10_Witness ==
    /\ Len(results) = 2
    /\ results[1].returncode # 0
    /\ ~results[2].launched

====
